---- MODULE Spec2Model ----
(***************************************************************************)
(* landlord: leases over the keys of a key-value store.                    *)
(*                                                                         *)
(* Landlord.lease inserts a batch of documents with a TTL and yields a     *)
(* Lease; Lease.confirm strips the TTL (store.touch with ttl 0),           *)
(* Lease.cancel removes the keys.  The Underwriter classifies the per-key  *)
(* results of the store and issues a compensating store.remove when part   *)
(* of a batch failed.                                                      *)
(*                                                                         *)
(* The store is an external collaborator.  It is modelled as a store that  *)
(* tells the truth about what it did, can fail per key or for a whole      *)
(* call, answers with exactly the keys it was asked about, and expires     *)
(* entries that still carry a TTL.  It may hold entries written by others  *)
(* before the first call.  A store request is executed, and the            *)
(* continuation the Underwriter attached to it is run, in one step; calls  *)
(* and expiry interleave freely between a request and its answer.          *)
(***************************************************************************)
EXTENDS Integers, FiniteSets, Sequences, TLC

\* Bounds of the model.
MaxKey == 2
MaxLease == 2

Keys == 1..MaxKey
LeaseIds == 1..MaxLease

\* The lease calls the specification Spec follows: one call of
\* Landlord.lease and the Lease it yields.
Solo == {1}

\* How the caller passes the completion callback: a function, nothing (the
\* promise form), or a value that is not a function.
Forms == {"callback", "promise", "invalid"}

\* The value of an etag that is undefined.
NoEtag == 0

\* An error object the store produced; src "none" stands for undefined.
NoInternal == [src |-> "none", key |-> 0]
KeyErr(k) == [src |-> "key", key |-> k]
CallErr(op) == [src |-> op, key |-> 0]
NoResultMessage == [src |-> "noresult", key |-> 0]

\* errors.js: the error kinds; NoError stands for undefined.
NoError == [kind |-> "none", keys |-> {}, internal |-> NoInternal]
CollisionError(keys) == [kind |-> "CollisionError", keys |-> keys, internal |-> NoInternal]
ExpiredError == [kind |-> "ExpiredError", keys |-> {}, internal |-> NoInternal]
CancelledError == [kind |-> "CancelledError", keys |-> {}, internal |-> NoInternal]
ConfirmedError == [kind |-> "ConfirmedError", keys |-> {}, internal |-> NoInternal]
StoreError(err) == [kind |-> "StoreError", keys |-> {}, internal |-> err]
TypeError == [kind |-> "TypeError", keys |-> {}, internal |-> NoInternal]

\* isKnown that takes every error for one of errors.js.
isKnown_Everything(err) == TRUE

isKnown(err) ==
  err.kind \in {"CollisionError", "ExpiredError", "CancelledError",
                "ConfirmedError", "StoreError"}

\* Underwriter._noResultError
noResultError == StoreError(NoResultMessage)

\* An error object of the store, as thrown: it is none of the kinds of
\* errors.js.
Foreign(err) == [kind |-> "foreign", keys |-> {}, internal |-> err]

\* What StoreError keeps as internal when it wraps the thrown error err.
Original(err) ==
  IF err.kind = "foreign" THEN err.internal ELSE [src |-> err.kind, key |-> 0]

\* The catch handler of insertAsync, removeAsync and touchAsync: an error of
\* errors.js is thrown on as it is, any other is wrapped.
catchAsync(err) ==
  IF isKnown(err) THEN err ELSE StoreError(Original(err))

Min(S) == CHOOSE x \in S : \A y \in S : x <= y

EmptyMap == [k \in {} |-> 0]

(***************************************************************************)
(* State.                                                                  *)
(***************************************************************************)
VARIABLES
  store,       \* the key-value store: key -> entry
  leases,      \* lease id -> the private state of the Lease object
  nextLease,   \* id the next call of Landlord.lease works for
  calls,       \* the calls whose store request has not been answered yet
  delivered,   \* the outcome handed to a caller by the step just taken
  underwriter, \* what the Underwriter keeps: its store reference and ttl
  constructedWith  \* the options the Landlord was constructed with

vars ==
  <<store, leases, nextLease, calls, delivered, underwriter, constructedWith>>

\* The ttl of an Underwriter built from options without ttl.
DefaultTtl == 5000

\* The options of the Landlord constructor, as far as the ttl goes: whether
\* one is given, and which.
Options(given, ttl) == [given |-> given, ttl |-> ttl]

\* _assertOptions that keeps no ttl when none is given.
assertOptions_NoDefault(options) ==
  [ok |-> ~options.given \/ options.ttl >= 0,
   ttl |-> IF options.given THEN options.ttl ELSE 0]

\* Underwriter._assertOptions: a ttl that is given must not be negative; the
\* ttl kept is the one given, or 5000.
assertOptions(options) ==
  [ok |-> ~options.given \/ options.ttl >= 0,
   ttl |-> IF options.given THEN options.ttl ELSE DefaultTtl]

\* A store entry; owner is the lease call whose insert created it (0 for an
\* entry somebody else wrote), perm tells whether it has no expiry.
Absent == [present |-> FALSE, owner |-> 0, perm |-> FALSE]
Entry(l, p) == [present |-> TRUE, owner |-> l, perm |-> p]

\* The value submitted for key k by the lease call l.
Val(l, k) == 10 * l + k
DocsFor(l, ks) == [k \in ks |-> Val(l, k)]

\* The etags the store assigns on insert and on touch; a store need not
\* report an etag (versioned is FALSE).
InsertEtag(l, k, versioned) == IF versioned THEN 100 + 10 * l + k ELSE NoEtag
TouchEtag(l, k, versioned) == IF versioned THEN 200 + 10 * l + k ELSE NoEtag

\* The private state of a Lease; NoLease is a lease that was not created.
NoLease ==
  [exists |-> FALSE, isCancelled |-> FALSE, isConfirmed |-> FALSE,
   isExpired |-> FALSE, documents |-> EmptyMap]

\* The Lease constructor with isConfirmed starting true.
Lease_StartsConfirmed(docs) ==
  [exists |-> TRUE, isCancelled |-> FALSE, isConfirmed |-> TRUE,
   isExpired |-> FALSE, documents |-> docs]

\* Lease constructor
Lease(docs) ==
  [exists |-> TRUE, isCancelled |-> FALSE, isConfirmed |-> FALSE,
   isExpired |-> FALSE, documents |-> docs]

\* The answer of the store to insert or touch: err set, no result, or a
\* result map.
NoResponse == [status |-> "none", res |-> EmptyMap, asked |-> {}]
Response(status, res, asked) == [status |-> status, res |-> res, asked |-> asked]

\* The outcome a step hands to the caller of op on lease l: at "call" when
\* the API call itself produced it, at "answer" when the continuation of a
\* store answer did; channel "throw" for an exception thrown by the call.
\* value is the lease handed over (0 for none); response is the answer of
\* the store to the primary request of the call, rollback tells how the
\* compensating remove went ("clean": no error and every key removed).
NoDelivery ==
  [op |-> "none", lease |-> 0, form |-> "none", at |-> "none",
   channel |-> "none", error |-> NoError, value |-> 0, keys |-> {},
   response |-> NoResponse, rollback |-> "none"]

Delivery(op, l, form, channel, error, value, keys, response, rollback) ==
  [op |-> op, lease |-> l, form |-> form,
   at |-> IF response = NoResponse THEN "call" ELSE "answer",
   channel |-> channel, error |-> error, value |-> value, keys |-> keys,
   response |-> response, rollback |-> rollback]

\* A call waiting for the store: pc "primary" while its insert, touch or
\* remove is outstanding, "rollback" while its compensating remove is.
Call(op, l, form, pc, keys, error, response, changed, pre) ==
  [op |-> op, lease |-> l, form |-> form, pc |-> pc, keys |-> keys,
   error |-> error, response |-> response, changed |-> changed, pre |-> pre]

(***************************************************************************)
(* lease.js helpers.                                                       *)
(***************************************************************************)
\* getStateError without its check of isExpired.
getStateError_SkipsExpired(state) ==
  IF state.isCancelled THEN CancelledError
  ELSE IF state.isConfirmed THEN ConfirmedError
  ELSE NoError

\* getStateError without its check of isConfirmed.
getStateError_SkipsConfirmed(state) ==
  IF state.isCancelled THEN CancelledError
  ELSE IF state.isExpired THEN ExpiredError
  ELSE NoError

getStateError(state) ==
  IF state.isCancelled THEN CancelledError
  ELSE IF state.isConfirmed THEN ConfirmedError
  ELSE IF state.isExpired THEN ExpiredError
  ELSE NoError

\* clearEtags that replaces each document by one without etag and value.
clearEtags_DropsValues(documents) ==
  [k \in DOMAIN documents |-> [etag |-> NoEtag, value |-> 0]]

\* clearEtags leaving the etags as they are.
clearEtags_KeepsEtags(documents) == documents

clearEtags(documents) ==
  [k \in DOMAIN documents |-> [documents[k] EXCEPT !.etag = NoEtag]]

\* confirmFailure without the reset of isConfirmed.
confirmFailure_KeepsConfirmed(state) ==
  [state EXCEPT !.documents = clearEtags(state.documents),
                !.isExpired = TRUE]

\* confirmFailure without the call of clearEtags.
confirmFailure_LeavesEtags(state) ==
  [state EXCEPT !.isConfirmed = FALSE,
                !.isExpired = TRUE]

confirmFailure(state) ==
  [state EXCEPT !.documents = clearEtags(state.documents),
                !.isConfirmed = FALSE,
                !.isExpired = TRUE]

\* confirmSuccess without the copy of the etags of the result.
confirmSuccess_KeepsEtags(state, res) ==
  [state EXCEPT !.isConfirmed = TRUE]

confirmSuccess(state, res) ==
  [state EXCEPT !.isConfirmed = TRUE,
                !.documents = [k \in DOMAIN state.documents |->
                   IF k \in DOMAIN res
                     THEN [state.documents[k] EXCEPT !.etag = res[k].etag]
                     ELSE state.documents[k]]]

(***************************************************************************)
(* Underwriter: classification of a result map.  The maps are walked in    *)
(* key order.                                                              *)
(***************************************************************************)
\* The loop of _createLease keeping the error of the first key that failed
\* without a collision.
RECURSIVE createLeaseLoop_FirstWins(_, _, _, _)
createLeaseLoop_FirstWins(res, docs, todo, acc) ==
  IF todo = {} THEN acc
  ELSE LET key == Min(todo)
           value == res[key]
           next ==
             IF ~value.success
               THEN [acc EXCEPT
                      !.success = FALSE,
                      !.collided = IF value.isCollision THEN @ \cup {key} ELSE @,
                      !.internal = IF value.isCollision \/ @ # NoInternal
                                     THEN @ ELSE value.error]
               ELSE [acc EXCEPT
                      !.successful = @ \cup {key},
                      !.leaseDocs = @ @@ (key :> [etag |-> value.etag,
                                                  value |-> docs[key]])]
       IN createLeaseLoop_FirstWins(res, docs, todo \ {key}, next)

RECURSIVE createLeaseLoop(_, _, _, _)
createLeaseLoop(res, docs, todo, acc) ==
  IF todo = {} THEN acc
  ELSE LET key == Min(todo)
           value == res[key]
           next ==
             IF ~value.success
               THEN [acc EXCEPT
                      !.success = FALSE,
                      !.collided = IF value.isCollision THEN @ \cup {key} ELSE @,
                      !.internal = IF value.isCollision THEN @ ELSE value.error]
               ELSE [acc EXCEPT
                      !.successful = @ \cup {key},
                      !.leaseDocs = @ @@ (key :> [etag |-> value.etag,
                                                  value |-> docs[key]])]
       IN createLeaseLoop(res, docs, todo \ {key}, next)

\* _createLease reporting no key as successful, so that nothing is rolled
\* back.
createLease_NoSuccessful(res, docs) ==
  LET acc == createLeaseLoop(res, docs, DOMAIN res,
               [success |-> TRUE, collided |-> {}, successful |-> {},
                internal |-> NoInternal, leaseDocs |-> EmptyMap])
  IN [value |-> IF acc.success THEN Lease(acc.leaseDocs) ELSE NoLease,
      success |-> acc.success,
      collided |-> acc.collided,
      successful |-> {},
      error |-> IF acc.success THEN NoError
                ELSE IF acc.internal # NoInternal THEN StoreError(acc.internal)
                ELSE CollisionError(acc.collided)]

createLease(res, docs) ==
  LET acc == createLeaseLoop(res, docs, DOMAIN res,
               [success |-> TRUE, collided |-> {}, successful |-> {},
                internal |-> NoInternal, leaseDocs |-> EmptyMap])
  IN [value |-> IF acc.success THEN Lease(acc.leaseDocs) ELSE NoLease,
      success |-> acc.success,
      collided |-> acc.collided,
      successful |-> acc.successful,
      error |-> IF acc.success THEN NoError
                ELSE IF acc.internal # NoInternal THEN StoreError(acc.internal)
                ELSE CollisionError(acc.collided)]

RECURSIVE createSummaryLoop(_, _, _)
createSummaryLoop(res, todo, acc) ==
  IF todo = {} THEN acc
  ELSE LET key == Min(todo)
           value == res[key]
           next ==
             IF ~value.success
               THEN [acc EXCEPT
                      !.success = FALSE,
                      !.internal = IF ~value.isMissing THEN value.error ELSE @]
               ELSE [acc EXCEPT !.successful = @ \cup {key}]
       IN createSummaryLoop(res, todo \ {key}, next)

\* _createSummary that never sets success to false.
createSummary_IgnoresFailures(res) ==
  [success |-> TRUE,
   successful |-> {k \in DOMAIN res : res[k].success},
   error |-> NoError]

\* _createSummary reporting no key as successful, so that nothing is rolled
\* back.
createSummary_NoSuccessful(res) ==
  LET acc == createSummaryLoop(res, DOMAIN res,
               [success |-> TRUE, successful |-> {}, internal |-> NoInternal])
  IN [success |-> acc.success,
      successful |-> {},
      error |-> IF acc.success THEN NoError
                ELSE IF acc.internal # NoInternal THEN StoreError(acc.internal)
                ELSE ExpiredError]

createSummary(res) ==
  LET acc == createSummaryLoop(res, DOMAIN res,
               [success |-> TRUE, successful |-> {}, internal |-> NoInternal])
  IN [success |-> acc.success,
      successful |-> acc.successful,
      error |-> IF acc.success THEN NoError
                ELSE IF acc.internal # NoInternal THEN StoreError(acc.internal)
                ELSE ExpiredError]

(***************************************************************************)
(* The store.                                                              *)
(***************************************************************************)
PresentKeys(ks) == {k \in ks : store[k].present}

\* The per-key results of an insert of the keys ks for lease call l where
\* the keys in failed fail for a reason of the store (those in withError
\* carrying an error object): a key that exists collides, any other key is
\* inserted.
InsertResult(l, ks, failed, withError, versioned) ==
  [k \in ks |->
    IF k \in failed
      THEN [success |-> FALSE, etag |-> NoEtag, isCollision |-> FALSE,
            isMissing |-> FALSE,
            error |-> IF k \in withError THEN KeyErr(k) ELSE NoInternal]
    ELSE IF store[k].present
      THEN [success |-> FALSE, etag |-> NoEtag, isCollision |-> TRUE,
            isMissing |-> FALSE, error |-> NoInternal]
    ELSE [success |-> TRUE, etag |-> InsertEtag(l, k, versioned), isCollision |-> FALSE,
          isMissing |-> FALSE, error |-> NoInternal]]

\* The per-key results of a touch: a key that does not exist is missing.
TouchResult(l, ks, failed, withError, versioned) ==
  [k \in ks |->
    IF k \in failed
      THEN [success |-> FALSE, etag |-> NoEtag, isCollision |-> FALSE,
            isMissing |-> FALSE,
            error |-> IF k \in withError THEN KeyErr(k) ELSE NoInternal]
    ELSE IF ~store[k].present
      THEN [success |-> FALSE, etag |-> NoEtag, isCollision |-> FALSE,
            isMissing |-> TRUE, error |-> NoInternal]
    ELSE [success |-> TRUE, etag |-> TouchEtag(l, k, versioned), isCollision |-> FALSE,
          isMissing |-> FALSE, error |-> NoInternal]]

Succeeded(res) == {k \in DOMAIN res : res[k].success}

\* The options insert / insertAsync hand to store.insert.
InsertOptions == [ttl |-> underwriter.ttl]

\* An insert that writes the keys without a TTL.
Inserted_NoTtl(l, ks) ==
  [k \in Keys |-> IF k \in ks THEN Entry(l, TRUE) ELSE store[k]]

\* The store after inserting the keys ks for lease call l with the ttl of
\* the Underwriter.  A ttl of 0 is taken as the store contract defines it
\* for touch: the entry has no expiry.
Inserted(l, ks) ==
  [k \in Keys |->
    IF k \in ks THEN Entry(l, InsertOptions.ttl = 0) ELSE store[k]]

\* The store after stripping the expiry of the keys ks.
Touched(ks) ==
  [k \in Keys |-> IF k \in ks THEN [store[k] EXCEPT !.perm = TRUE] ELSE store[k]]

\* The store after removing the keys ks.
Removed(ks) ==
  [k \in Keys |-> IF k \in ks THEN Absent ELSE store[k]]

\* new Landlord(options): the constructor throws for options that
\* _assertOptions refuses; the store may hold entries of others.
Constructed(options) ==
  /\ assertOptions(options).ok
  /\ underwriter = [store |-> "store", ttl |-> assertOptions(options).ttl]
  /\ constructedWith = options
  /\ store \in [Keys -> {Absent, Entry(0, TRUE)}]
  /\ leases = [l \in LeaseIds |-> NoLease]
  /\ nextLease = 1
  /\ calls = {}
  /\ delivered = NoDelivery

\* A Landlord built from options that give no ttl.
Init == Constructed(Options(FALSE, 0))

\* The options a Landlord is built from in the model: no ttl, or a ttl that
\* is negative, zero, small, or the default.
OptionSet ==
  {Options(FALSE, 0)} \cup {Options(TRUE, t) : t \in {-1, 0, 1, DefaultTtl}}

\* A Landlord built from any of the options.
InitConfigured == \E options \in OptionSet : Constructed(options)


(***************************************************************************)
(* Calls of the API.                                                       *)
(***************************************************************************)
Channel(form) == IF form = "callback" THEN "callback" ELSE "promise"

\* Underwriter.insert that also refuses documents without any key.
LandlordLease_RejectsEmpty(ids, ks, form) ==
  /\ nextLease \in ids
  /\ IF form = "invalid" \/ ks = {}
       THEN /\ delivered' = Delivery("reserve", nextLease, form, "throw",
                                     TypeError, 0, ks, NoResponse, "none")
            /\ UNCHANGED <<calls, nextLease>>
       ELSE /\ calls' = calls \cup
                 {Call("reserve", nextLease, form, "primary", ks, NoError,
                       NoResponse, {}, {})}
            /\ nextLease' = nextLease + 1
            /\ delivered' = NoDelivery
  /\ UNCHANGED <<store, leases, underwriter, constructedWith>>

\* Underwriter.insert without _assertCallback: whatever is passed as the
\* callback, the insert goes to the store.
LandlordLease_NoAssert(ids, ks, form) ==
  /\ nextLease \in ids
  /\ calls' = calls \cup
       {Call("reserve", nextLease, form, "primary", ks, NoError,
             NoResponse, {}, {})}
  /\ nextLease' = nextLease + 1
  /\ delivered' = NoDelivery
  /\ UNCHANGED <<store, leases, underwriter, constructedWith>>

\* Landlord.lease -> Underwriter.insert / insertAsync, up to the store
\* request.  The documents are a map, so only the callback is validated.
LandlordLease(ids, ks, form) ==
  /\ nextLease \in ids
  /\ IF form = "invalid"
       THEN /\ delivered' = Delivery("reserve", nextLease, form, "throw",
                                     TypeError, 0, ks, NoResponse, "none")
            /\ UNCHANGED <<calls, nextLease>>
       ELSE /\ calls' = calls \cup
                 {Call("reserve", nextLease, form, "primary", ks, NoError,
                       NoResponse, {}, {})}
            /\ nextLease' = nextLease + 1
            /\ delivered' = NoDelivery
  /\ UNCHANGED <<store, leases, underwriter, constructedWith>>

\* Lease.cancel that asks the store to remove no key.
LeaseCancel_RemovesNothing(l, form) ==
  LET state == leases[l]
      keys == DOMAIN state.documents
      e == getStateError(state)
      marked == IF e = NoError
                  THEN [state EXCEPT !.isCancelled = TRUE,
                                     !.documents = clearEtags(state.documents)]
                  ELSE state
  IN /\ state.exists
     /\ leases' = [leases EXCEPT ![l] = marked]
     /\ IF form = "invalid"
          THEN /\ delivered' = Delivery("cancel", l, form, "throw", TypeError,
                                        0, keys, NoResponse, "none")
               /\ UNCHANGED calls
          ELSE IF e # NoError
          THEN /\ delivered' = Delivery("cancel", l, form, Channel(form), e,
                                        0, keys, NoResponse, "none")
               /\ UNCHANGED calls
          ELSE /\ calls' = calls \cup
                    {Call("cancel", l, form, "primary", {}, NoError,
                          NoResponse, {}, {})}
               /\ delivered' = NoDelivery
     /\ UNCHANGED <<store, nextLease, underwriter, constructedWith>>

\* Lease.cancel that sends the remove without marking the lease first.
LeaseCancel_IssuesFirst(l, form) ==
  LET state == leases[l]
      keys == DOMAIN state.documents
      e == getStateError(state)
      marked == state
  IN /\ state.exists
     /\ leases' = [leases EXCEPT ![l] = marked]
     /\ IF form = "invalid"
          THEN /\ delivered' = Delivery("cancel", l, form, "throw", TypeError,
                                        0, keys, NoResponse, "none")
               /\ UNCHANGED calls
          ELSE IF e # NoError
          THEN /\ delivered' = Delivery("cancel", l, form, Channel(form), e,
                                        0, keys, NoResponse, "none")
               /\ UNCHANGED calls
          ELSE /\ calls' = calls \cup
                    {Call("cancel", l, form, "primary", keys, NoError,
                          NoResponse, {}, {})}
               /\ delivered' = NoDelivery
     /\ UNCHANGED <<store, nextLease, underwriter, constructedWith>>

\* Lease.cancel, up to the store request.
LeaseCancel(l, form) ==
  LET state == leases[l]
      keys == DOMAIN state.documents
      e == getStateError(state)
      marked == IF e = NoError
                  THEN [state EXCEPT !.isCancelled = TRUE,
                                     !.documents = clearEtags(state.documents)]
                  ELSE state
  IN /\ state.exists
     /\ leases' = [leases EXCEPT ![l] = marked]
     /\ IF form = "invalid"
          THEN /\ delivered' = Delivery("cancel", l, form, "throw", TypeError,
                                        0, keys, NoResponse, "none")
               /\ UNCHANGED calls
          ELSE IF e # NoError
          THEN /\ delivered' = Delivery("cancel", l, form, Channel(form), e,
                                        0, keys, NoResponse, "none")
               /\ UNCHANGED calls
          ELSE /\ calls' = calls \cup
                    {Call("cancel", l, form, "primary", keys, NoError,
                          NoResponse, {}, {})}
               /\ delivered' = NoDelivery
     /\ UNCHANGED <<store, nextLease, underwriter, constructedWith>>

\* Lease.confirm, up to the store request.
LeaseConfirm(l, form) ==
  LET state == leases[l]
      keys == DOMAIN state.documents
      e == getStateError(state)
      marked == IF e = NoError
                  THEN [state EXCEPT !.isConfirmed = TRUE]
                  ELSE state
  IN /\ state.exists
     /\ leases' = [leases EXCEPT ![l] = marked]
     /\ IF form = "invalid"
          THEN /\ delivered' = Delivery("confirm", l, form, "throw", TypeError,
                                        0, keys, NoResponse, "none")
               /\ UNCHANGED calls
          ELSE IF e # NoError
          THEN /\ delivered' = Delivery("confirm", l, form, Channel(form), e,
                                        0, keys, NoResponse, "none")
               /\ UNCHANGED calls
          ELSE /\ calls' = calls \cup
                    {Call("confirm", l, form, "primary", keys, NoError,
                          NoResponse, {}, {})}
               /\ delivered' = NoDelivery
     /\ UNCHANGED <<store, nextLease, underwriter, constructedWith>>

(***************************************************************************)
(* Answers of the store and the continuations they run.                    *)
(***************************************************************************)
\* A cleanup that hands the error to the caller at once, while its remove
\* is still on its way.
Cleanup_DeliversAtOnce(c, keys, error, response, changed, pre) ==
  /\ calls' = (calls \ {c}) \cup
       {Call(c.op, c.lease, c.form, "rollback", keys, error, response,
             changed, pre)}
  /\ delivered' = Delivery(c.op, c.lease, c.form, Channel(c.form), error, 0,
                           response.asked, response, "none")

\* A cleanup that drops the call: no remove is issued and the caller is
\* never answered.
Cleanup_DropsCall(c, keys, error, response, changed, pre) ==
  /\ calls' = calls \ {c}
  /\ delivered' = NoDelivery

\* Underwriter._cleanup / _cleanupAsync: issue the compensating remove.
Cleanup(c, keys, error, response, changed, pre) ==
  /\ calls' = (calls \ {c}) \cup
       {Call(c.op, c.lease, c.form, "rollback", keys, error, response,
             changed, pre)}
  /\ delivered' = NoDelivery

\* The continuation of insert / insertAsync of an Underwriter that keeps the
\* lease it built last in one place shared by all its leases.
InsertDone_SharedLease(c, response, pre, changed) ==
  LET l == c.lease
      docs == DocsFor(l, c.keys)
      lease == createLease(response.res, docs)
  IN IF response.status # "result"
       THEN LET e == IF response.status = "err"
                       THEN StoreError(CallErr("insert"))
                       ELSE noResultError
                thrown == IF response.status = "err"
                            THEN Foreign(CallErr("insert"))
                            ELSE noResultError
            IN IF c.form = "callback"
                 THEN /\ Cleanup(c, c.keys, e, response, changed, pre)
                      /\ UNCHANGED leases
                 ELSE /\ calls' = calls \ {c}
                      /\ delivered' = Delivery("reserve", l, c.form, "promise",
                           catchAsync(thrown), 0, c.keys, response, "none")
                      /\ UNCHANGED leases
     ELSE IF ~lease.success
       THEN /\ Cleanup(c, lease.successful, lease.error, response, changed, pre)
            /\ UNCHANGED leases
     ELSE /\ calls' = calls \ {c}
          /\ leases' = [leases EXCEPT ![Min(LeaseIds)] = lease.value]
          /\ delivered' = Delivery("reserve", l, c.form, Channel(c.form),
               NoError, l, c.keys, response, "none")

\* The continuation of insert / insertAsync for the answer of the store.
InsertDone(c, response, pre, changed) ==
  LET l == c.lease
      docs == DocsFor(l, c.keys)
      lease == createLease(response.res, docs)
  IN IF response.status # "result"
       THEN LET e == IF response.status = "err"
                       THEN StoreError(CallErr("insert"))
                       ELSE noResultError
                thrown == IF response.status = "err"
                            THEN Foreign(CallErr("insert"))
                            ELSE noResultError
            IN IF c.form = "callback"
                 THEN /\ Cleanup(c, c.keys, e, response, changed, pre)
                      /\ UNCHANGED leases
                 ELSE /\ calls' = calls \ {c}
                      /\ delivered' = Delivery("reserve", l, c.form, "promise",
                           catchAsync(thrown), 0, c.keys, response, "none")
                      /\ UNCHANGED leases
     ELSE IF ~lease.success
       THEN /\ Cleanup(c, lease.successful, lease.error, response, changed, pre)
            /\ UNCHANGED leases
     ELSE /\ calls' = calls \ {c}
          /\ leases' = [leases EXCEPT ![l] = lease.value]
          /\ delivered' = Delivery("reserve", l, c.form, Channel(c.form),
               NoError, l, c.keys, response, "none")

\* store.insert answers the request of a lease call.
InsertAnswer(c) ==
  /\ c.op = "reserve"
  /\ c.pc = "primary"
  /\ \E status \in {"result", "err", "noresult"} :
       IF status = "result"
         THEN \E failed \in SUBSET c.keys : \E withError \in SUBSET failed :
              \E versioned \in BOOLEAN :
                LET res == InsertResult(c.lease, c.keys, failed, withError,
                                        versioned)
                IN /\ store' = Inserted(c.lease, Succeeded(res))
                   /\ InsertDone(c, Response(status, res, c.keys),
                                 PresentKeys(c.keys), Succeeded(res))
         ELSE \E done \in SUBSET (c.keys \ PresentKeys(c.keys)) :
                /\ store' = Inserted(c.lease, done)
                /\ InsertDone(c, Response(status, EmptyMap, c.keys),
                              PresentKeys(c.keys), done)
  /\ UNCHANGED <<nextLease, underwriter, constructedWith>>

\* The continuation of touch / touchAsync that sends a remove of the keys
\* touched also when the touch succeeded for every key.
TouchDone_RemovesAfterSuccess(c, response, changed) ==
  LET l == c.lease
      summary == createSummary(response.res)
  IN IF response.status # "result"
       THEN LET e == IF response.status = "err"
                       THEN StoreError(CallErr("touch"))
                       ELSE noResultError
                thrown == IF response.status = "err"
                            THEN Foreign(CallErr("touch"))
                            ELSE noResultError
            IN IF c.form = "callback"
                 THEN /\ Cleanup(c, c.keys, e, response, changed, {})
                      /\ UNCHANGED leases
                 ELSE /\ calls' = calls \ {c}
                      /\ leases' = [leases EXCEPT ![l] = confirmFailure(@)]
                      /\ delivered' = Delivery("confirm", l, c.form, "promise",
                           catchAsync(thrown), 0, c.keys, response, "none")
     ELSE IF ~summary.success
       THEN /\ Cleanup(c, summary.successful, summary.error, response,
                       changed, {})
            /\ UNCHANGED leases
     ELSE /\ calls' = (calls \ {c}) \cup
               {Call(c.op, c.lease, c.form, "rollback", summary.successful,
                     NoError, response, changed, {})}
          /\ leases' = [leases EXCEPT ![l] = confirmSuccess(@, response.res)]
          /\ delivered' = NoDelivery

\* The continuation of touch / touchAsync and of Lease.confirm for the
\* answer of the store.
TouchDone(c, response, changed) ==
  LET l == c.lease
      summary == createSummary(response.res)
  IN IF response.status # "result"
       THEN LET e == IF response.status = "err"
                       THEN StoreError(CallErr("touch"))
                       ELSE noResultError
                thrown == IF response.status = "err"
                            THEN Foreign(CallErr("touch"))
                            ELSE noResultError
            IN IF c.form = "callback"
                 THEN /\ Cleanup(c, c.keys, e, response, changed, {})
                      /\ UNCHANGED leases
                 ELSE /\ calls' = calls \ {c}
                      /\ leases' = [leases EXCEPT ![l] = confirmFailure(@)]
                      /\ delivered' = Delivery("confirm", l, c.form, "promise",
                           catchAsync(thrown), 0, c.keys, response, "none")
     ELSE IF ~summary.success
       THEN /\ Cleanup(c, summary.successful, summary.error, response,
                       changed, {})
            /\ UNCHANGED leases
     ELSE /\ calls' = calls \ {c}
          /\ leases' = [leases EXCEPT ![l] = confirmSuccess(@, response.res)]
          /\ delivered' = Delivery("confirm", l, c.form, Channel(c.form),
               NoError, l, c.keys, response, "none")

\* store.touch answers the request of a confirm.
TouchAnswer(c) ==
  /\ c.op = "confirm"
  /\ c.pc = "primary"
  /\ \E status \in {"result", "err", "noresult"} :
       IF status = "result"
         THEN \E failed \in SUBSET c.keys : \E withError \in SUBSET failed :
              \E versioned \in BOOLEAN :
                LET res == TouchResult(c.lease, c.keys, failed, withError,
                                       versioned)
                IN /\ store' = Touched(Succeeded(res))
                   /\ TouchDone(c, Response(status, res, c.keys),
                                {k \in Succeeded(res) : ~store[k].perm})
         ELSE \E done \in SUBSET PresentKeys(c.keys) :
                /\ store' = Touched(done)
                /\ TouchDone(c, Response(status, EmptyMap, c.keys),
                             {k \in done : ~store[k].perm})
  /\ UNCHANGED <<nextLease, underwriter, constructedWith>>

\* What store.remove may do with the keys ks: the keys it removes and
\* whether it reports err.  A store that is not faulty removes every key.
RemoveOutcomes(faulty, ks) ==
  IF faulty
    THEN {[removed |-> r, err |-> e] : r \in SUBSET PresentKeys(ks), e \in BOOLEAN}
    ELSE {[removed |-> PresentKeys(ks), err |-> FALSE]}

\* The result of a remove of the keys ks that removed the keys in removed,
\* per key: a key that did not exist counts as succeeded, a key that is left
\* in the store as failed.
RemoveResult(ks, removed) ==
  [k \in ks |->
    [success |-> k \notin (PresentKeys(ks) \ removed), etag |-> NoEtag,
     isCollision |-> FALSE, isMissing |-> FALSE, error |-> NoInternal]]

\* store.remove answers the request of a cancel: Underwriter.remove /
\* removeAsync and the continuation of Lease.cancel.
RemoveAnswer(c, faulty) ==
  /\ c.op = "cancel"
  /\ c.pc = "primary"
  /\ \E out \in RemoveOutcomes(faulty, c.keys) :
       LET removed == out.removed
           err == out.err
       IN
       /\ store' = Removed(removed)
       /\ delivered' =
            Delivery("cancel", c.lease, c.form, Channel(c.form),
              IF ~err THEN NoError
              ELSE IF c.form = "promise"
                THEN catchAsync(Foreign(CallErr("remove")))
                ELSE StoreError(CallErr("remove")),
              IF err /\ c.form = "promise" THEN 0 ELSE c.lease,
              c.keys,
              Response(IF err THEN "err" ELSE "result",
                       IF err THEN EmptyMap ELSE RemoveResult(c.keys, removed),
                       c.keys),
              "none")
  /\ calls' = calls \ {c}
  /\ UNCHANGED <<leases, nextLease, underwriter, constructedWith>>

\* store.remove answers a compensating remove: the continuation of
\* _cleanup / _cleanupAsync, and of Lease.confirm when the call is a confirm.
CleanupAnswer(c, faulty) ==
  /\ c.pc = "rollback"
  /\ \E out \in RemoveOutcomes(faulty, c.keys) :
       LET removed == out.removed
           err == out.err
           e == IF c.form = "promise"
                  THEN catchAsync(IF err THEN Foreign(CallErr("remove"))
                                         ELSE c.error)
                  ELSE c.error
           clean == ~err /\ removed = PresentKeys(c.keys)
       IN /\ store' = Removed(removed)
          /\ delivered' =
               Delivery(c.op, c.lease, c.form, Channel(c.form), e,
                 IF c.op = "confirm" /\ c.form = "callback" THEN c.lease ELSE 0,
                 c.response.asked,
                 c.response,
                 IF clean THEN "clean" ELSE "failed")
  /\ leases' = IF c.op = "confirm"
                 THEN [leases EXCEPT ![c.lease] = confirmFailure(@)]
                 ELSE leases
  /\ calls' = calls \ {c}
  /\ UNCHANGED <<nextLease, underwriter, constructedWith>>

\* The store drops an entry whose TTL has run out.
Expire(k) ==
  /\ store[k].present
  /\ ~store[k].perm
  /\ store' = [store EXCEPT ![k] = Absent]
  /\ delivered' = NoDelivery
  /\ UNCHANGED <<leases, nextLease, calls, underwriter, constructedWith>>

Next ==
  \/ \E ks \in SUBSET Keys : \E form \in Forms : LandlordLease(Solo, ks, form)
  \/ \E l \in LeaseIds : \E form \in Forms : LeaseCancel(l, form)
  \/ \E l \in LeaseIds : \E form \in Forms : LeaseConfirm(l, form)
  \/ \E c \in calls : InsertAnswer(c)
  \/ \E c \in calls : TouchAnswer(c)
  \/ \E c \in calls : RemoveAnswer(c, TRUE)
  \/ \E c \in calls : CleanupAnswer(c, TRUE)
  \/ \E k \in Keys : Expire(k)

Spec == Init /\ [][Next]_vars

\* The same calls against a store whose remove never fails.
NextReliableRemove ==
  \/ \E ks \in SUBSET Keys : \E form \in Forms : LandlordLease(Solo, ks, form)
  \/ \E l \in LeaseIds : \E form \in Forms : LeaseCancel(l, form)
  \/ \E l \in LeaseIds : \E form \in Forms : LeaseConfirm(l, form)
  \/ \E c \in calls : InsertAnswer(c)
  \/ \E c \in calls : TouchAnswer(c)
  \/ \E c \in calls : RemoveAnswer(c, FALSE)
  \/ \E c \in calls : CleanupAnswer(c, FALSE)
  \/ \E k \in Keys : Expire(k)

SpecReliableRemove == Init /\ [][NextReliableRemove]_vars

\* The same calls on a Landlord built from any accepted options.
SpecConfigured == InitConfigured /\ [][Next]_vars

\* The calls against a store that eventually drops every entry that still
\* carries a TTL.  Nothing obliges a caller to call or the store to answer.
SpecExpiry == Spec /\ \A k \in Keys : WF_vars(Expire(k))

TypeOK ==
  /\ store \in [Keys -> {Absent} \cup {Entry(l, p) : l \in 0..MaxLease, p \in BOOLEAN}]
  /\ \A c \in calls : c.pc \in {"primary", "rollback"}
  /\ nextLease \in 1..(MaxLease + 1)
  /\ \A l \in LeaseIds : DOMAIN leases[l].documents \subseteq Keys
  /\ underwriter.ttl \in Nat


(***************************************************************************)
(* Properties.                                                             *)
(***************************************************************************)
Flags(state) ==
  {f \in {"isCancelled", "isConfirmed", "isExpired"} : state[f]}

Pending(state) == state.exists /\ Flags(state) = {}
Terminal(state) == state.exists /\ Flags(state) # {}

EtagsCleared(state) ==
  \A k \in DOMAIN state.documents : state.documents[k].etag = NoEtag

\* The calls of op on lease l that a step starts waiting for the store.
Issued(op, l) ==
  {c \in calls' \ calls : c.op = op /\ c.lease = l /\ c.pc = "primary"}

\* C1: in every state at most one of isCancelled, isConfirmed, isExpired of a
\* lease is true, and a lease that has one of them true never has all three
\* false again.
C1_FlagsExclusiveAndSticky ==
  /\ [](\A l \in LeaseIds : Cardinality(Flags(leases[l])) <= 1)
  /\ [][\A l \in LeaseIds : Terminal(leases[l]) => Terminal(leases'[l])]_vars

\* A confirm was accepted (isConfirmed set) and has failed: the lease is
\* Expired.
C1_Witness ==
  /\ delivered.op = "confirm"
  /\ delivered.at = "answer"
  /\ delivered.error # NoError
  /\ leases[delivered.lease].isExpired

\* The error the state guard is to give for a lease that left Pending.
GuardError(state) ==
  IF state.isCancelled THEN "CancelledError"
  ELSE IF state.isConfirmed THEN "ConfirmedError"
  ELSE "ExpiredError"

C3_CancelWins ==
  /\ [][\A l \in LeaseIds :
          (/\ Pending(leases[l])
           /\ \/ Issued("cancel", l) # {}
              \/ delivered'.op = "cancel" /\ delivered'.lease = l)
          => /\ Flags(leases'[l]) = {"isCancelled"}
             /\ EtagsCleared(leases'[l])]_vars
  /\ [](\A c \in calls :
          c.op = "cancel" =>
            /\ Flags(leases[c.lease]) = {"isCancelled"}
            /\ EtagsCleared(leases[c.lease]))
  /\ []((delivered.op = "cancel" /\ delivered.at = "answer") =>
          /\ Flags(leases[delivered.lease]) = {"isCancelled"}
          /\ EtagsCleared(leases[delivered.lease])
          /\ (delivered.response.status = "err"
                => delivered.error.kind = "StoreError")
          /\ (delivered.response.status # "err"
                => delivered.error = NoError /\ delivered.value = delivered.lease))

\* The remove of a cancel has failed: StoreError, and the lease is Cancelled.
C3_Witness ==
  /\ delivered.op = "cancel"
  /\ delivered.at = "answer"
  /\ delivered.response.status = "err"
  /\ delivered.error.kind = "StoreError"
  /\ delivered.keys # {}
  /\ leases[delivered.lease].isCancelled

AllSucceeded(response) ==
  /\ response.status = "result"
  /\ \A k \in DOMAIN response.res : response.res[k].success

\* C4: when the touch of a confirm() succeeds for every key, the lease is
\* Confirmed, every entry has the etag the touch returned for its key and
\* the value submitted at reserve, and the call succeeds with the lease.
C4_ConfirmSuccess ==
  (/\ delivered.op = "confirm"
   /\ delivered.at = "answer"
   /\ AllSucceeded(delivered.response))
  => LET l == delivered.lease
         docs == leases[l].documents
     IN /\ delivered.error = NoError
        /\ delivered.value = l
        /\ Flags(leases[l]) = {"isConfirmed"}
        /\ DOMAIN docs = delivered.keys
        /\ DOMAIN delivered.response.res = delivered.keys
        /\ \A k \in DOMAIN docs :
             /\ docs[k].etag = delivered.response.res[k].etag
             /\ docs[k].value = Val(l, k)

\* A confirm of two keys has succeeded with etags assigned by the touch.
C4_Witness ==
  /\ delivered.op = "confirm"
  /\ delivered.error = NoError
  /\ Cardinality(delivered.keys) = 2
  /\ leases[delivered.lease].isConfirmed
  /\ \A k \in delivered.keys :
       leases[delivered.lease].documents[k].etag
         = TouchEtag(delivered.lease, k, TRUE)


Failed(response) == {k \in DOMAIN response.res : ~response.res[k].success}
Missing(response) == {k \in DOMAIN response.res : response.res[k].isMissing}
Collided(response) == {k \in DOMAIN response.res : response.res[k].isCollision}

\* A confirm whose touch answered with a result naming a missing key has
\* completed.
ConfirmFoundMissing ==
  /\ delivered.op = "confirm"
  /\ delivered.at = "answer"
  /\ delivered.response.status = "result"
  /\ Missing(delivered.response) # {}

C6_AsDocumented ==
  (/\ delivered.op = "confirm"
   /\ delivered.at = "answer"
   /\ delivered.response.status = "result"
   /\ Failed(delivered.response) # {}
   /\ delivered.rollback = "clean")
  => /\ Flags(leases[delivered.lease]) = {"isExpired"}
     /\ \A k \in delivered.keys : ~store[k].present

\* A reserve whose insert answered with collisions and no other failure has
\* completed.
ReserveCollided ==
  /\ delivered.op = "reserve"
  /\ delivered.at = "answer"
  /\ delivered.response.status = "result"
  /\ Collided(delivered.response) # {}
  /\ Failed(delivered.response) = Collided(delivered.response)

\* C7 as claimed: when the insert result reports a collision on some of the
\* keys and no other failure, reserve fails with CollisionError naming
\* exactly those keys, yields no Lease, and the store no longer holds the
\* keys whose insert succeeded.
C7_AsClaimed ==
  ReserveCollided =>
    /\ delivered.error = CollisionError(Collided(delivered.response))
    /\ delivered.value = 0
    /\ ~leases[delivered.lease].exists
    /\ \A k \in Succeeded(delivered.response.res) : ~store[k].present

\* C7 as amended: when the insert result reports a collision on some of the
\* keys and no other failure, reserve fails and yields no Lease.  The error
\* is CollisionError naming exactly the collided keys, except in the promise
\* form when the rollback remove rejects: the caller then gets the
\* StoreError of the remove.  When the rollback remove succeeds the store no
\* longer holds the keys whose insert succeeded.
C7_CollisionRollsBack ==
  ReserveCollided =>
    LET collision == CollisionError(Collided(delivered.response))
        clean == delivered.rollback = "clean"
    IN /\ delivered.error # NoError
       /\ delivered.value = 0
       /\ ~leases[delivered.lease].exists
       /\ (delivered.form = "callback" \/ clean) => delivered.error = collision
       /\ delivered.error # collision
            => /\ delivered.form = "promise"
               /\ delivered.rollback = "failed"
               /\ delivered.error = StoreError(CallErr("remove"))
       /\ clean => \A k \in Succeeded(delivered.response.res) : ~store[k].present

\* One key collided, the other was inserted and then removed by the rollback.
C7_Witness ==
  /\ ReserveCollided
  /\ Succeeded(delivered.response.res) # {}
  /\ delivered.rollback = "clean"
  /\ delivered.error.kind = "CollisionError"
  /\ \A k \in delivered.keys :
       store[k].present => store[k].owner # delivered.lease

\* C8 as claimed: reserve yields a Lease exactly when the store reported
\* success for every submitted key; the Lease starts Pending, owns exactly
\* the submitted keys, and every entry has a non-empty etag and the submitted
\* value.
C8_AsClaimed ==
  delivered.op = "reserve" =>
    LET l == delivered.lease
        docs == leases[l].documents
    IN /\ leases[l].exists <=> AllSucceeded(delivered.response)
       /\ leases[l].exists <=> delivered.value = l
       /\ leases[l].exists =>
            /\ Pending(leases[l])
            /\ DOMAIN docs = delivered.keys
            /\ \A k \in DOMAIN docs :
                 /\ docs[k].etag # NoEtag
                 /\ docs[k].value = Val(l, k)

\* C8 as amended: reserve yields a Lease exactly when the store reported
\* success for every submitted key; the Lease starts Pending, owns exactly
\* the submitted keys, and every entry has the etag the insert result gave
\* for its key (none when the store gave none) and the submitted value.
C8_LeaseIffAllInserted ==
  delivered.op = "reserve" =>
    LET l == delivered.lease
        docs == leases[l].documents
    IN /\ leases[l].exists <=> AllSucceeded(delivered.response)
       /\ leases[l].exists <=> delivered.value = l
       /\ leases[l].exists =>
            /\ Pending(leases[l])
            /\ DOMAIN docs = delivered.keys
            /\ \A k \in DOMAIN docs :
                 /\ docs[k].etag = delivered.response.res[k].etag
                 /\ docs[k].value = Val(l, k)

\* A reserve of two keys has yielded a Lease whose entries carry the etags
\* of the insert.
C8_Witness ==
  /\ delivered.op = "reserve"
  /\ delivered.error = NoError
  /\ Cardinality(delivered.keys) = 2
  /\ Pending(leases[delivered.lease])
  /\ \A k \in delivered.keys :
       leases[delivered.lease].documents[k].etag
         = InsertEtag(delivered.lease, k, TRUE)

\* The keys of the store that lease call l inserted and that have no expiry.
Permanent(l) ==
  {k \in Keys : store[k].present /\ store[k].owner = l /\ store[k].perm}

\* C9 as claimed: whenever no call is waiting for the store, the permanent
\* entries of a lease are all of its keys, the lease being Confirmed, or
\* none.
C9_AllOrNothing ==
  calls = {} =>
    \A l \in LeaseIds :
      \/ Permanent(l) = {}
      \/ /\ leases[l].exists
         /\ leases[l].isConfirmed
         /\ Permanent(l) = DOMAIN leases[l].documents

\* C10 as claimed: the compensating remove of a failed reserve or confirm
\* removes only entries that the failed call changed, never an entry the
\* call did not affect; a failed reserve never removes a key that was in the
\* store before it.
C10_RollbackRemovesOnlyChanged ==
  [][\A c \in calls :
       (c.pc = "rollback" /\ c \notin calls') =>
         LET removed == {k \in Keys : store[k].present /\ ~store'[k].present}
         IN /\ removed \subseteq c.changed
            /\ removed \cap c.pre = {}]_vars

\* The store request that is the primary request of an operation.
StoreOp(op) ==
  IF op = "reserve" THEN "insert" ELSE IF op = "confirm" THEN "touch" ELSE "remove"

\* The primary store request (of a non-empty batch) of the operation just
\* completed failed as a whole: the store answered with err, or with neither
\* err nor a result.
CallFailed(op) ==
  /\ delivered.op = op
  /\ delivered.at = "answer"
  /\ delivered.keys # {}
  /\ delivered.response.status \in {"err", "noresult"}

\* C11 as claimed: when store.insert fails as a whole or gives no result,
\* reserve issues a remove of all the submitted keys and fails with
\* StoreError, in the callback form and in the promise form.
C11_AsClaimed ==
  /\ \A c \in calls :
       (c.op = "reserve" /\ c.pc = "rollback" /\ c.response.status # "result")
         => c.keys = c.response.asked
  /\ CallFailed("reserve")
       => /\ delivered.rollback # "none"
          /\ delivered.error.kind = "StoreError"
          /\ delivered.value = 0

\* C12 as claimed: when store.touch fails as a whole or gives no result
\* during confirm(), a remove of every key of the lease is issued, the call
\* fails with StoreError and the lease ends Expired, in the callback form and
\* in the promise form.
C12_AsClaimed ==
  /\ \A c \in calls :
       (c.op = "confirm" /\ c.pc = "rollback" /\ c.response.status # "result")
         => c.keys = DOMAIN leases[c.lease].documents
  /\ CallFailed("confirm")
       => /\ delivered.rollback # "none"
          /\ delivered.error.kind = "StoreError"
          /\ Flags(leases[delivered.lease]) = {"isExpired"}

\* The error Underwriter.insert / touch classify the answer of the store to
\* the primary request as, before any rollback.
Classified(op, l, response) ==
  IF response.status = "err" THEN StoreError(CallErr(StoreOp(op)))
  ELSE IF response.status = "noresult" THEN noResultError
  ELSE IF op = "reserve"
    THEN createLease(response.res, DocsFor(l, response.asked)).error
    ELSE createSummary(response.res).error

\* C13 as claimed: when the rollback remove of a failed reserve or confirm
\* fails too, the caller still gets the error the original failure was
\* classified as, in the callback form and in the promise form.
C13_AsClaimed ==
  (/\ delivered.op \in {"reserve", "confirm"}
   /\ delivered.at = "answer"
   /\ delivered.rollback = "failed")
  => delivered.error =
       Classified(delivered.op, delivered.lease, delivered.response)

\* The kinds of error of errors.js.
ErrorKinds ==
  {"CollisionError", "ExpiredError", "CancelledError", "ConfirmedError",
   "StoreError"}

\* The error objects the store raised towards the operation just completed:
\* for its primary request or its remove as a whole, or for single keys.
Raised ==
  ({CallErr(StoreOp(delivered.op)), CallErr("remove")}
     \cup {delivered.response.res[k].error : k \in DOMAIN delivered.response.res})
  \ {NoInternal}

\* C14: every error handed over through the callback or the promise of
\* reserve, confirm or cancel is a CollisionError, ExpiredError,
\* CancelledError, ConfirmedError or StoreError; a StoreError carries as
\* internal an error the store raised (or the no-result message), and an
\* error the store raised for the primary request as a whole is handed over
\* as the StoreError of exactly that error.
C14_ErrorsClassified ==
  (delivered.channel \in {"callback", "promise"} /\ delivered.error # NoError)
  => /\ delivered.error.kind \in ErrorKinds
     /\ delivered.error.kind = "StoreError"
          => delivered.error.internal \in Raised \cup {NoResultMessage}
     /\ (/\ delivered.response.status = "err"
         /\ delivered.form = "callback" \/ delivered.rollback # "failed")
          => delivered.error = StoreError(CallErr(StoreOp(delivered.op)))

\* store.insertAsync has rejected with its own error: the reserve rejects
\* with the StoreError of it.
C14_Witness ==
  /\ delivered.op = "reserve"
  /\ delivered.form = "promise"
  /\ delivered.keys # {}
  /\ delivered.response.status = "err"
  /\ delivered.error = StoreError(CallErr("insert"))

\* cancel() has just been answered at the call, with a usable callback or
\* none, on a lease that is Expired.
CancelOfExpired ==
  /\ delivered.op = "cancel"
  /\ delivered.at = "call"
  /\ delivered.form # "invalid"
  /\ leases[delivered.lease].isExpired

Held(l) ==
  {k \in DOMAIN leases[l].documents : store[k].present /\ store[k].owner = l}

\* A cancel whose remove the store answered without err has completed.
CancelRemoved ==
  /\ delivered.op = "cancel"
  /\ delivered.at = "answer"
  /\ delivered.response.status = "result"

\* cancel() on a Pending lease issues one remove, for exactly the keys of
\* the lease, and a cancel never issues another store request.
CancelIssuesOneRemove ==
  /\ [][\A l \in LeaseIds :
          (/\ Pending(leases[l])
           /\ delivered'.op # "cancel"
           /\ Flags(leases'[l]) = {"isCancelled"})
          => /\ Cardinality(Issued("cancel", l)) = 1
             /\ \A c \in Issued("cancel", l) :
                  c.keys = DOMAIN leases[l].documents]_vars
  /\ [](\A c \in calls : c.op = "cancel" => c.pc = "primary")
  /\ [](\A l \in LeaseIds :
          Cardinality({c \in calls : c.op = "cancel" /\ c.lease = l}) <= 1)

Reserved(k) == store[k].present /\ store[k].owner \in LeaseIds

C19_TerminalHasNoEtags ==
  \A l \in LeaseIds :
    (leases[l].exists /\ (leases[l].isCancelled \/ leases[l].isExpired))
      => EtagsCleared(leases[l])

\* A lease of two keys has become Expired by a failed confirm.
C19_Witness ==
  /\ delivered.op = "confirm"
  /\ delivered.at = "answer"
  /\ delivered.error # NoError
  /\ leases[delivered.lease].isExpired
  /\ Cardinality(DOMAIN leases[delivered.lease].documents) = 2
  /\ EtagsCleared(leases[delivered.lease])

\* The cancel and confirm calls of lease l that are waiting for the store.
InFlight(l) ==
  {c \in calls : c.lease = l /\ c.op \in {"cancel", "confirm"}}

\* The store requests (touch, or the remove of a cancel) that a step issues
\* for lease l.
Passed(l) == Issued("cancel", l) \cup Issued("confirm", l)

\* C20: however cancel() and confirm() calls on one lease interleave, also
\* with a store request of an earlier call still outstanding, a call issues
\* its store request only if the lease is Pending and takes the lease out of
\* Pending for good with it, so that exactly one call does; a call (with a
\* usable callback or none) that finds the lease Pending is that call, and
\* every other one fails with the state error and issues nothing.
C20_OneCallPasses ==
  /\ [][\A l \in LeaseIds :
          /\ Passed(l) # {}
               => /\ Pending(leases[l])
                  /\ Terminal(leases'[l])
                  /\ Cardinality(Passed(l)) = 1
          /\ Terminal(leases[l]) => Terminal(leases'[l]) /\ Passed(l) = {}
          /\ (/\ Pending(leases[l])
              /\ Terminal(leases'[l])
              /\ delivered'.channel # "throw")
               => Cardinality(Passed(l)) = 1]_vars
  /\ [][(/\ delivered'.at = "call"
         /\ delivered'.op \in {"cancel", "confirm"}
         /\ delivered'.form # "invalid")
        => /\ Terminal(leases[delivered'.lease])
           /\ delivered'.error.kind = GuardError(leases[delivered'.lease])
           /\ calls' = calls]_vars
  /\ [](\A l \in LeaseIds : Cardinality(InFlight(l)) <= 1)

\* A cancel() has been rejected with ConfirmedError while the touch of a
\* confirm() of the same lease is still outstanding.
C20_Witness ==
  /\ delivered.op = "cancel"
  /\ delivered.at = "call"
  /\ delivered.error = ConfirmedError
  /\ \E c \in InFlight(delivered.lease) : c.op = "confirm" /\ c.pc = "primary"

(***************************************************************************)
(* Several leases of one Underwriter.                                      *)
(***************************************************************************)
\* A Landlord over a store that holds nothing yet.
InitShared ==
  /\ Constructed(Options(FALSE, 0))
  /\ store = [k \in Keys |-> Absent]

\* The calls of several leases that share the Underwriter and the store, in
\* any interleaving, made with a callback, against a store whose remove
\* never fails.
NextShared ==
  \/ \E ks \in SUBSET Keys : LandlordLease(LeaseIds, ks, "callback")
  \/ \E l \in LeaseIds : LeaseCancel(l, "callback")
  \/ \E l \in LeaseIds : LeaseConfirm(l, "callback")
  \/ \E c \in calls : InsertAnswer(c)
  \/ \E c \in calls : TouchAnswer(c)
  \/ \E c \in calls : RemoveAnswer(c, FALSE)
  \/ \E c \in calls : CleanupAnswer(c, FALSE)
  \/ \E k \in Keys : Expire(k)

SpecShared == InitShared /\ [][NextShared]_vars

\* The calls of lease l that wait for the store.
CallsOf(l) == {c \in calls : c.lease = l}

\* The step is a step of an operation of lease l: it issues, continues or
\* ends a call of l, or hands an outcome to the caller of an operation of l.
ActsOn(l) ==
  \/ CallsOf(l)' # CallsOf(l)
  \/ delivered'.op # "none" /\ delivered'.lease = l

\* C21: the Underwriter is stateless across leases.  No step of a reserve,
\* confirm or cancel changes the store reference or the ttl it keeps, and a
\* step that changes the flags, documents or etags of a lease is a step of
\* an operation of that lease and of no other lease, in every interleaving
\* of the operations of the leases that share the Underwriter.
C21_StatelessAcrossLeases ==
  [][/\ underwriter' = underwriter
     /\ \A l \in LeaseIds :
          leases'[l] # leases[l] =>
            /\ ActsOn(l)
            /\ \A m \in LeaseIds \ {l} :
                 ~ActsOn(m) /\ leases'[m] = leases[m]]_vars

\* Two leases of the Underwriter exist, one has been confirmed and the
\* other cancelled while a call of the first is still waiting for the store.
C21_Witness ==
  /\ \A l \in LeaseIds : leases[l].exists
  /\ \E l \in LeaseIds : \E m \in LeaseIds \ {l} :
       /\ leases[l].isConfirmed
       /\ CallsOf(l) # {}
       /\ leases[m].isCancelled

(***************************************************************************)
(* A store that answers.                                                   *)
(***************************************************************************)
\* The calls against a store that answers every request it is sent; each
\* answer action takes the request away, so no request is answered twice.
SpecAnswering ==
  /\ Spec
  /\ WF_vars(\E c \in calls : InsertAnswer(c))
  /\ WF_vars(\E c \in calls : TouchAnswer(c))
  /\ WF_vars(\E c \in calls : RemoveAnswer(c, TRUE))
  /\ WF_vars(\E c \in calls : CleanupAnswer(c, TRUE))

Ops == {"reserve", "confirm", "cancel"}

\* A call of op on lease l waits for the store, for its primary request or
\* for its compensating remove.
Waiting(op, l) == \E c \in calls : c.op = op /\ c.lease = l

\* What is handed over is the lease and no error, or one of the errors of
\* errors.js.
WellFormedOutcome ==
  \/ delivered.error = NoError /\ delivered.value = delivered.lease
  \/ delivered.error.kind \in ErrorKinds

\* The call of op on lease l that went to the store has handed its outcome
\* to the caller.
Outcome(op, l) ==
  /\ delivered.at = "answer"
  /\ delivered.op = op
  /\ delivered.lease = l
  /\ delivered.channel \in {"callback", "promise"}
  /\ WellFormedOutcome

\* A call that goes to the store hands over nothing when it is made, and a
\* call that waits stops waiting in exactly the step that hands over its
\* outcome.
ExactlyOneOutcome ==
  /\ delivered'.at = "call" => calls' = calls
  /\ calls' # calls /\ calls \subseteq calls' => delivered' = NoDelivery
  /\ \A op \in Ops : \A l \in LeaseIds :
       (Waiting(op, l) /\ ~Waiting(op, l)')
         <=> (delivered'.at = "answer" /\ delivered'.op = op
                /\ delivered'.lease = l)

\* C22: when the store answers every request it receives exactly once,
\* every reserve, confirm and cancel call that goes to the store eventually
\* hands over an outcome, and hands over exactly one: the lease on success,
\* or one of the errors of errors.js on failure.
C22_EveryCallDelivers ==
  /\ [][ExactlyOneOutcome]_vars
  /\ \A op \in Ops : \A l \in LeaseIds : Waiting(op, l) ~> Outcome(op, l)

\* A reserve has handed over its error after the store had answered both
\* its insert and its compensating remove, and nothing waits any more.
C22_Witness ==
  /\ Outcome("reserve", 1)
  /\ delivered.rollback # "none"
  /\ delivered.error # NoError
  /\ calls = {}

(***************************************************************************)
(* Validation of the callback.                                             *)
(***************************************************************************)
\* C23: a callback that is given but is not a function makes lease(),
\* cancel() and confirm() throw a TypeError from the call itself; nothing is
\* handed over through the callback or the promise for that call, and the
\* call sends no request to the store and leaves the store as it is.
C23_InvalidCallbackThrows ==
  /\ [][delivered'.form = "invalid" =>
          /\ delivered'.at = "call"
          /\ delivered'.channel = "throw"
          /\ delivered'.error = TypeError
          /\ delivered'.value = 0
          /\ calls' = calls
          /\ store' = store]_vars
  /\ [](\A c \in calls : c.form # "invalid")
  /\ [](delivered.channel = "throw" <=> delivered.form = "invalid")

\* cancel(42) on a lease has just thrown, and nothing waits for the store.
C23_Witness ==
  /\ delivered.op = "cancel"
  /\ delivered.form = "invalid"
  /\ delivered.channel = "throw"
  /\ delivered.error = TypeError
  /\ calls = {}

(***************************************************************************)
(* Classification of per-key failures.                                     *)
(***************************************************************************)
\* C24 as claimed: when the result of the insert marks a key unsuccessful
\* without isCollision, the reserve fails with StoreError, also when other
\* keys collided; the reserve fails with CollisionError only when every
\* unsuccessful key is a collision.
C24_AsClaimed ==
  (/\ delivered.op = "reserve"
   /\ delivered.at = "answer"
   /\ delivered.response.status = "result")
  => /\ Failed(delivered.response) \ Collided(delivered.response) # {}
          => delivered.error.kind = "StoreError"
     /\ delivered.error.kind = "CollisionError"
          => /\ Failed(delivered.response) # {}
             /\ Failed(delivered.response) \subseteq Collided(delivered.response)

\* C25 as claimed: when the result of the touch marks a key unsuccessful
\* without isMissing, the confirm fails with StoreError; the confirm fails
\* with ExpiredError only when every unsuccessful key is reported missing.
C25_AsClaimed ==
  (/\ delivered.op = "confirm"
   /\ delivered.at = "answer"
   /\ delivered.response.status = "result")
  => /\ Failed(delivered.response) \ Missing(delivered.response) # {}
          => delivered.error.kind = "StoreError"
     /\ delivered.error.kind = "ExpiredError"
          => /\ Failed(delivered.response) # {}
             /\ Failed(delivered.response) \subseteq Missing(delivered.response)

(***************************************************************************)
(* The states of a lease.                                                  *)
(***************************************************************************)
\* The step sends the store the request of a call of op on lease l: the
\* call has passed the validation and the state guard.
Accepted(op, l) == ~Waiting(op, l) /\ Waiting(op, l)'

\* The store interaction of the confirm of lease l ends with a failure in
\* the step.
ConfirmFails(l) ==
  /\ Waiting("confirm", l)
  /\ ~Waiting("confirm", l)'
  /\ delivered'.op = "confirm"
  /\ delivered'.lease = l
  /\ delivered'.error # NoError

\* C26 as claimed: the flags of a lease change only from Pending to
\* Cancelled in the step that starts an accepted cancel, from Pending to
\* Confirmed in the step that starts an accepted confirm, and from Confirmed
\* to Expired in the step in which the store interaction of that confirm
\* ends with a failure; so Cancelled and Expired are never left, Confirmed
\* is never left once its confirm has succeeded, and no lease becomes
\* Expired because the TTL of an entry has run out in the store.
C26_AsClaimed ==
  [][\A l \in LeaseIds :
       (leases[l].exists /\ Flags(leases'[l]) # Flags(leases[l])) =>
         \/ /\ Flags(leases[l]) = {}
            /\ Flags(leases'[l]) = {"isCancelled"}
            /\ Accepted("cancel", l)
         \/ /\ Flags(leases[l]) = {}
            /\ Flags(leases'[l]) = {"isConfirmed"}
            /\ Accepted("confirm", l)
         \/ /\ Flags(leases[l]) = {"isConfirmed"}
            /\ Flags(leases'[l]) = {"isExpired"}
            /\ ConfirmFails(l)]_vars

(***************************************************************************)
(* The order of the steps of cancel().                                     *)
(***************************************************************************)
\* Lease l is Cancelled and holds no etag.
CancelledAndCleared(l) ==
  /\ Flags(leases[l]) = {"isCancelled"}
  /\ EtagsCleared(leases[l])

\* C27: in cancel() the lease is marked Cancelled and its etags are cleared
\* in the step that sends the remove to the store, before the store has
\* acted on it; the lease is Cancelled with no etag for as long as the
\* remove waits for its answer, and once a lease is Cancelled with no etag
\* no later step, the answer of the store included, changes that.
C27_MarkedBeforeRemove ==
  /\ [][\A l \in LeaseIds :
          Issued("cancel", l) # {} =>
            /\ CancelledAndCleared(l)'
            /\ store' = store]_vars
  /\ [](\A l \in LeaseIds : Waiting("cancel", l) => CancelledAndCleared(l))
  /\ [][\A l \in LeaseIds :
          CancelledAndCleared(l) => CancelledAndCleared(l)']_vars

\* The remove of a cancel waits for the store, the entries of the lease are
\* still in the store, and the lease is already Cancelled.
C27_Witness ==
  \E c \in calls :
    /\ c.op = "cancel"
    /\ c.keys # {}
    /\ \A k \in c.keys : store[k].present /\ store[k].owner = c.lease
    /\ CancelledAndCleared(c.lease)

(***************************************************************************)
(* Empty key sets.                                                         *)
(***************************************************************************)
\* C28 as claimed: no request over an empty key set reaches the store from
\* insert, touch or remove of the Underwriter, no lease without keys is ever
\* produced, and a reserve, confirm or cancel over no keys fails with a
\* validation error thrown by the call.
C28_AsClaimed ==
  /\ \A c \in calls : c.pc = "primary" => c.keys # {}
  /\ \A l \in LeaseIds : leases[l].exists => DOMAIN leases[l].documents # {}
  /\ (delivered.op \in Ops /\ delivered.keys = {})
       => delivered.channel = "throw" /\ delivered.error = TypeError

\* C28: an empty key set is accepted.  A reserve is refused by the call
\* itself only for its callback, never for its documents; a reserve over no
\* documents whose insert the store answers with a result hands over a
\* Pending lease without keys; and cancel or confirm of a lease without
\* keys is refused by the call only for the callback or for the state of
\* the lease, and otherwise sends the remove or touch over no keys to the
\* store.
C28_EmptyKeySetAccepted ==
  /\ []((delivered.op = "reserve" /\ delivered.at = "call")
          => delivered.form = "invalid")
  /\ []((/\ delivered.op = "reserve"
         /\ delivered.at = "answer"
         /\ delivered.keys = {}
         /\ delivered.response.status = "result")
          => /\ delivered.error = NoError
             /\ delivered.value = delivered.lease
             /\ Pending(leases[delivered.lease])
             /\ DOMAIN leases[delivered.lease].documents = {})
  /\ []((/\ delivered.op \in {"cancel", "confirm"}
         /\ delivered.at = "call"
         /\ delivered.keys = {}
         /\ delivered.form # "invalid")
          => delivered.error.kind \in
               {"CancelledError", "ConfirmedError", "ExpiredError"})
  /\ [][\A l \in LeaseIds :
          (/\ Pending(leases[l])
           /\ DOMAIN leases[l].documents = {}
           /\ ~Pending(leases'[l])
           /\ delivered'.form # "invalid")
          => \E c \in Issued("cancel", l) \cup Issued("confirm", l) :
               c.keys = {}]_vars

\* A lease without keys exists and the remove of its cancel, over no keys,
\* waits for the store.
C28_Witness ==
  \E c \in calls :
    /\ c.op = "cancel"
    /\ c.pc = "primary"
    /\ c.keys = {}
    /\ leases[c.lease].exists
    /\ DOMAIN leases[c.lease].documents = {}

(***************************************************************************)
(* The ttl of a reserve.                                                   *)
(***************************************************************************)
\* The ttl the options ask for: the one they give, or 5000.
ConfiguredTtl ==
  IF constructedWith.given THEN constructedWith.ttl ELSE DefaultTtl

\* An insert of a reserve waits for the store.
InsertIssued == \E c \in calls : c.op = "reserve" /\ c.pc = "primary"

\* Key k is held by an entry that a reserve of this Landlord inserted and
\* whose lease no confirm has marked.
ReservedUnconfirmed(k) ==
  /\ store[k].present
  /\ store[k].owner \in LeaseIds
  /\ Flags(leases[store[k].owner]) \cap {"isConfirmed", "isExpired"} = {}

\* C29 as claimed: every insert a reserve sends carries the configured ttl,
\* or 5000 when none is configured, that ttl is greater than zero, and an
\* entry that is reserved and not confirmed carries an expiry.
C29_AsClaimed ==
  /\ InsertIssued =>
       /\ InsertOptions.ttl = ConfiguredTtl
       /\ InsertOptions.ttl > 0
  /\ \A k \in Keys : ReservedUnconfirmed(k) => ~store[k].perm

\* C29: every insert a reserve sends carries the configured ttl, or 5000
\* when none is configured; that ttl is not negative, and when it is
\* greater than zero an entry that is reserved and not confirmed carries an
\* expiry.
C29_TtlConfiguredOrDefault ==
  /\ InsertIssued =>
       /\ InsertOptions.ttl = ConfiguredTtl
       /\ InsertOptions.ttl >= 0
  /\ InsertOptions.ttl > 0 =>
       \A k \in Keys : ReservedUnconfirmed(k) => ~store[k].perm

\* A Landlord constructed with a ttl of 0 has issued a lease that is
\* Pending and whose entry is in the store.
C29_Witness ==
  /\ constructedWith = Options(TRUE, 0)
  /\ \E k \in Keys :
       /\ ReservedUnconfirmed(k)
       /\ Pending(leases[store[k].owner])
       /\ k \in DOMAIN leases[store[k].owner].documents

(***************************************************************************)
(* Outcomes wait for the store.                                            *)
(***************************************************************************)
\* The outcome of the call c, handed over by the continuation of a store
\* answer, is what the step just taken handed over.
AnsweredOutcomeOf(c) ==
  /\ delivered.at = "answer"
  /\ delivered.op = c.op
  /\ delivered.lease = c.lease

\* C30: when a reserve or a confirm fails and a compensating remove is sent,
\* the step that sends it hands nothing to the caller, and the failure is
\* handed over in the step in which the store answers that remove; as long
\* as a request of a call, primary or compensating, waits for its answer the
\* outcome of the call is not handed over, so a call whose request the store
\* never answers never hands over an outcome.
C30_OutcomeAfterRemoveAnswer ==
  /\ [](\A c \in calls : ~AnsweredOutcomeOf(c))
  /\ [][\A c \in calls' \ calls : c.pc = "rollback" => delivered' = NoDelivery]_vars
  /\ [][delivered'.rollback # "none" =>
          \E c \in calls \ calls' :
            /\ c.pc = "rollback"
            /\ c.op \in {"reserve", "confirm"}
            /\ AnsweredOutcomeOf(c)'
            /\ delivered'.error # NoError]_vars

\* A confirm has failed for a key, the compensating remove of the keys it
\* touched waits for the store, and nothing has been handed to the caller.
C30_Witness ==
  /\ delivered = NoDelivery
  /\ \E c \in calls :
       /\ c.pc = "rollback"
       /\ c.op = "confirm"
       /\ c.keys # {}
       /\ c.error # NoError

(***************************************************************************)
(* Leases that meet on a key.                                              *)
(***************************************************************************)
\* The confirm of lease l has succeeded: the lease is Confirmed and no call
\* of it waits for the store.
ConfirmedForGood(l) ==
  /\ leases[l].exists
  /\ Flags(leases[l]) = {"isConfirmed"}
  /\ CallsOf(l) = {}

\* C31 as claimed: no two leases whose confirm has succeeded hold a key in
\* common, in any interleaving of the reserve, confirm and cancel calls of
\* the leases and of the expiry of unconfirmed entries in the store.
C31_AsClaimed ==
  \A l \in LeaseIds : \A m \in LeaseIds \ {l} :
    (ConfirmedForGood(l) /\ ConfirmedForGood(m))
      => DOMAIN leases[l].documents \cap DOMAIN leases[m].documents = {}

\* The step is the answer of the store to a remove sent for lease call c by
\* cancel() or by the rollback of a failed confirm.
RemoveAnsweredFor(c) ==
  /\ c \in calls \ calls'
  /\ \/ c.op = "cancel"
     \/ c.op = "confirm" /\ c.pc = "rollback"

\* The keys whose entry the step deletes from the store.
Deleted == {k \in Keys : store[k].present /\ ~store'[k].present}

\* C32 as claimed: a remove sent for a lease by cancel() or by the rollback
\* of its failed confirm deletes only entries that the reserve of that lease
\* inserted, never an entry inserted by the reserve of another lease, also
\* when the entries of the first lease have expired and another lease has
\* reserved the same key since.
C32_AsClaimed ==
  [][\A c \in calls :
       RemoveAnsweredFor(c) =>
         \A k \in Deleted : store[k].owner = c.lease]_vars

(***************************************************************************)
(* Calls refused for their callback.                                       *)
(***************************************************************************)
\* C33 as claimed: a cancel() or confirm() that throws for a callback that
\* is not a function leaves the lease as it was: a Pending lease keeps its
\* three flags false and its etags.
C33_AsClaimed ==
  [][(/\ delivered'.op \in {"cancel", "confirm"}
      /\ delivered'.form = "invalid")
     => leases'[delivered'.lease] = leases[delivered'.lease]]_vars

(***************************************************************************)
(* The callback form and the promise form.                                 *)
(***************************************************************************)
\* What the callback form makes of the answers of the store to the call
\* whose outcome was just handed over: a compensating remove is sent exactly
\* when the primary request failed, for a call as a whole or for a key; the
\* error handed over is of the kind the answer to the primary request is
\* classified as (for a cancel: StoreError exactly when the remove erred); a
\* confirm leaves the lease Confirmed when no error is handed over and
\* Expired without etags otherwise; and a success hands over the lease.
AsCallbackForm ==
  LET d == delivered
      classified == Classified(d.op, d.lease, d.response)
  IN /\ d.op \in {"reserve", "confirm"} =>
          /\ d.rollback # "none" <=> classified # NoError
          /\ d.error.kind = classified.kind
     /\ d.op = "cancel" =>
          (d.error.kind = "StoreError" <=> d.response.status = "err")
     /\ d.op = "confirm" =>
          IF d.error = NoError
            THEN Flags(leases[d.lease]) = {"isConfirmed"}
            ELSE /\ Flags(leases[d.lease]) = {"isExpired"}
                 /\ EtagsCleared(leases[d.lease])
     /\ d.error = NoError => d.value = d.lease

\* C34 as claimed: for the same answers of the store the callback form and
\* the promise form of reserve, confirm and cancel send the same store
\* requests, leave the lease with the same flags and etags and hand over the
\* same kind of error or the same lease: whatever the form of the call, its
\* outcome is the one the callback form has for those answers.
C34_AsClaimed ==
  (/\ delivered.at = "answer"
   /\ delivered.form \in {"callback", "promise"}
   /\ delivered.keys # {})
    => AsCallbackForm

\* The outcomes of the calls made with a callback are the reference of the
\* comparison.
CallbackFormIsReference ==
  (delivered.at = "answer" /\ delivered.form = "callback") => AsCallbackForm

(***************************************************************************)
(* The store requests of one operation.                                    *)
(***************************************************************************)
\* The answer of the store to a primary request reports a failure: of the
\* request as a whole, or of a key.
ReportsFailure(response) ==
  response.status \in {"err", "noresult"} \/ Failed(response) # {}

\* C35: a compensating remove is sent only by a reserve or a confirm whose
\* insert or touch reported a failure, for the call as a whole or for a key;
\* an operation whose insert or touch succeeded for every key hands over its
\* outcome with no remove sent.  The primary request of an operation is sent
\* once: that of a reserve by the one call that takes the lease id, that of
\* a confirm or cancel only for a Pending lease, which it leaves at once;
\* and an operation has at most one request outstanding, a compensating
\* remove arising only from the answer to the primary request and followed
\* by no further request.
C35_RemoveOnlyOnFailure ==
  /\ [](\A c \in calls :
          c.pc = "rollback" =>
            /\ c.op \in {"reserve", "confirm"}
            /\ ReportsFailure(c.response))
  /\ []((/\ delivered.op \in {"reserve", "confirm"}
         /\ delivered.at = "answer"
         /\ ~ReportsFailure(delivered.response))
          => delivered.rollback = "none" /\ delivered.error = NoError)
  /\ [](\A op \in Ops : \A l \in LeaseIds :
          Cardinality({c \in calls : c.op = op /\ c.lease = l}) <= 1)
  /\ [][\A l \in LeaseIds :
          /\ Issued("reserve", l) # {} => l = nextLease /\ nextLease' = l + 1
          /\ \A op \in {"confirm", "cancel"} :
               Issued(op, l) # {} =>
                 Pending(leases[l]) /\ ~Pending(leases'[l])]_vars
  /\ [][\A c \in calls' \ calls :
          c.pc = "rollback" =>
            \E p \in calls \ calls' :
              p.pc = "primary" /\ p.op = c.op /\ p.lease = c.lease]_vars
  /\ [][nextLease' >= nextLease]_vars

\* The insert of a reserve has failed for a key and succeeded for another,
\* and the one remove of the reserve, for the key inserted, waits for the
\* store.
C35_Witness ==
  \E c \in calls :
    /\ c.op = "reserve"
    /\ c.pc = "rollback"
    /\ c.response.status = "result"
    /\ Failed(c.response) # {}
    /\ c.keys # {}
    /\ c.keys = Succeeded(c.response.res)

(***************************************************************************)
(* The documents of a lease.                                               *)
(***************************************************************************)
\* The keys and the values of the documents of a lease, without the etags.
KeysAndValues(state) ==
  [k \in DOMAIN state.documents |-> state.documents[k].value]

\* C36: once a lease exists, no step changes the keys or the values of its
\* documents, and they are the keys and values its reserve submitted;
\* whether cancel() and confirm() succeed or fail, they change only the
\* etags and the flags.
C36_DocumentsFixed ==
  /\ [][\A l \in LeaseIds :
          leases[l].exists =>
            /\ leases'[l].exists
            /\ KeysAndValues(leases'[l]) = KeysAndValues(leases[l])]_vars
  /\ [](\A l \in LeaseIds :
          leases[l].exists =>
            KeysAndValues(leases[l]) = DocsFor(l, DOMAIN leases[l].documents))

\* A confirm has failed: the lease is Expired, its etags are cleared, and it
\* still holds its keys with their values.
C36_Witness ==
  /\ delivered.op = "confirm"
  /\ delivered.at = "answer"
  /\ delivered.error # NoError
  /\ leases[delivered.lease].isExpired
  /\ DOMAIN leases[delivered.lease].documents = Keys
  /\ EtagsCleared(leases[delivered.lease])
  /\ KeysAndValues(leases[delivered.lease]) = DocsFor(delivered.lease, Keys)

(***************************************************************************)
(* The error a StoreError of reserve carries.                              *)
(***************************************************************************)
Max(S) == CHOOSE x \in S : \A y \in S : x >= y

\* The keys the result of the insert marks unsuccessful without
\* isCollision.
FailedOtherwise(response) == Failed(response) \ Collided(response)

\* A reserve whose insert answered with a result in which several keys
\* failed without a collision has handed over its outcome.
SeveralFailedOtherwise ==
  /\ delivered.op = "reserve"
  /\ delivered.at = "answer"
  /\ delivered.response.status = "result"
  /\ Cardinality(FailedOtherwise(delivered.response)) >= 2

\* The reserve is of the promise form and its compensating remove failed:
\* the error of the remove may have taken the place of the classified one.
RemoveErrorMayReplace ==
  delivered.form = "promise" /\ delivered.rollback = "failed"

\* C37 as claimed: when several keys of the result of an insert fail without
\* isCollision, each with an error, the StoreError the reserve hands over
\* carries the error of the first of them in result order.
C37_AsClaimed ==
  (/\ SeveralFailedOtherwise
   /\ \A k \in FailedOtherwise(delivered.response) :
        delivered.response.res[k].error # NoInternal) =>
    delivered.error =
      StoreError(delivered.response.res[
        Min(FailedOtherwise(delivered.response))].error)

\* C37: when several keys of the result of an insert fail without
\* isCollision, the error of the last of them in result order decides: when
\* that key carries an error, the reserve hands over the StoreError of that
\* error; when it carries none, the reserve hands over a CollisionError with
\* the keys that collided, whatever errors the keys before it carry.  In
\* the promise form a compensating remove that errs puts the StoreError of
\* its error in their place.
C37_LastErrorWins ==
  SeveralFailedOtherwise =>
    LET res == delivered.response.res
        last == Max(FailedOtherwise(delivered.response))
        classified ==
          IF res[last].error # NoInternal
            THEN StoreError(res[last].error)
            ELSE CollisionError(Collided(delivered.response))
    IN \/ delivered.error = classified
       \/ /\ RemoveErrorMayReplace
          /\ delivered.error = StoreError(CallErr("remove"))

\* Two keys of an insert have failed with an error each and without a
\* collision, and the reserve has handed over the StoreError of the error of
\* the second.
C37_Witness ==
  /\ SeveralFailedOtherwise
  /\ \A k \in DOMAIN delivered.response.res :
       delivered.response.res[k].error = KeyErr(k)
  /\ delivered.error = StoreError(KeyErr(Max(DOMAIN delivered.response.res)))

====
